---- MODULE Spec2Model ----
(***************************************************************************)
(* A model of scrapy_mongodb.MongoDBPipeline: the item pipeline that       *)
(* writes scraped items to MongoDB, with optional buffering, upsert by a   *)
(* unique key, GridFS routing of large fields and a duplicate-key stop.    *)
(*                                                                         *)
(* The collaborators (the crawling engine, the MongoDB collection, GridFS) *)
(* are modelled by what the pipeline observes of them: the documents a     *)
(* collection holds, the files GridFS received, the close requests the     *)
(* engine received, and whether a write raised.                            *)
(***************************************************************************)
EXTENDS Integers, Sequences, FiniteSets, TLC

(***************************************************************************)
(* Bounds of the model.                                                    *)
(***************************************************************************)
\* process_item calls of one run, over all pipeline instances
MaxCalls == 3
\* the largest MONGODB_BUFFER_DATA a settings source provides
MaxBuffer == 3
\* the largest MONGODB_STOP_ON_DUPLICATE a settings source provides
MaxStop == 2
\* pipeline instances that may exist in the process
NumWriters == 2
\* close_spider calls one pipeline instance may receive
MaxCloses == 2

Writer == 1..NumWriters

(***************************************************************************)
(* Python values.  A value is a record (kind, s, n): None, a str, an int,  *)
(* a bool, an ObjectId returned by GridFS.put, or the timestamp record     *)
(* {'ts': utcnow()}.  One shape for all kinds keeps them comparable.       *)
(***************************************************************************)
None == [kind |-> "none", s |-> "", n |-> 0]
StrV(str) == [kind |-> "str", s |-> str, n |-> 0]
IntV(i) == [kind |-> "int", s |-> "", n |-> i]
BoolV(b) == [kind |-> "bool", s |-> "", n |-> IF b THEN 1 ELSE 0]
Oid(i) == [kind |-> "oid", s |-> "", n |-> i]
Ts(i) == [kind |-> "ts", s |-> "", n |-> i]

\* Python truthiness, as `if x:` evaluates it
Truthy(v) ==
    CASE v.kind = "none" -> FALSE
      [] v.kind = "str" -> v.s # ""
      [] v.kind = "int" -> v.n # 0
      [] v.kind = "bool" -> v.n # 0
      [] OTHER -> TRUE

\* not_set(string): None or ''
not_set(v) ==
    IF v.kind = "none" THEN TRUE
    ELSE IF v.kind = "str" /\ v.s = "" THEN TRUE
    ELSE FALSE

DigitStr == <<"0", "1", "2", "3", "4", "5", "6", "7", "8", "9">>

RECURSIVE IntToStr(_)
IntToStr(i) ==
    IF i < 10 THEN DigitStr[i + 1]
    ELSE IntToStr(i \div 10) \o DigitStr[(i % 10) + 1]

\* str(value), the conversion insert_item applies before GridFS.put
Str(v) ==
    CASE v.kind = "none" -> "None"
      [] v.kind = "str" -> v.s
      [] v.kind = "int" -> IntToStr(v.n)
      [] v.kind = "bool" -> (IF v.n = 1 THEN "True" ELSE "False")
      [] v.kind = "oid" -> "oid" \o IntToStr(v.n)
      [] v.kind = "ts" -> "ts" \o IntToStr(v.n)

\* sys.getsizeof(value) of CPython 3 (64 bit): a str of ASCII characters
\* takes 49 bytes plus one per character, a small int 28, None 16
StrOverhead == 49
IntSize == 28
NoneSize == 16
getsizeof(v) ==
    CASE v.kind = "str" -> StrOverhead + Len(v.s)
      [] v.kind = "none" -> NoneSize
      [] OTHER -> IntSize

(***************************************************************************)
(* Items.  The Item class declares the fields id and body; a raw item maps *)
(* the fields it populates to values.  A document is a map from field      *)
(* names to values too.                                                    *)
(***************************************************************************)
\* the order a dict of an item iterates its keys in
FieldOrder == <<"id", "body", "scrapy-mongodb">>

Fields == {"id", "body"}

\* the items the spider of a run may yield: two with the same id and
\* different bodies, one of them not a str, and one with another id and an
\* empty body
RunItems ==
    { [id |-> StrV("a"), body |-> StrV("xx")],
      [id |-> StrV("a"), body |-> IntV(7)],
      [id |-> StrV("b"), body |-> StrV("")] }

\* the items of a spider whose items lack fields or hold None
TransformItems ==
    RunItems \cup { [f \in {"body"} |-> None] }

\* Item classes: per field its metadata (the tags set to True and the
\* serializer BaseItemExporter.serialize_field applies)
Meta(tags, serializer) == [tags |-> tags, serializer |-> serializer]
PlainItem == [id |-> Meta({}, "identity"), body |-> Meta({}, "identity")]
BigBodyItem == [id |-> Meta({}, "identity"), body |-> Meta({"big_field"}, "identity")]
BigIdItem == [id |-> Meta({"big_field"}, "identity"), body |-> Meta({}, "identity")]
StrBodyItem == [id |-> Meta({}, "identity"), body |-> Meta({"big_field"}, "str")]

\* a map with the key k set to v
With(d, k, v) == [f \in DOMAIN d \cup {k} |-> IF f = k THEN v ELSE d[f]]

(***************************************************************************)
(* Settings and configuration.                                             *)
(***************************************************************************)
\* MONGODB_UNIQUE_KEY: None, a field name, or a list of (field, direction)
KeyNone == [kind |-> "none", s |-> "", n |-> 0, keys |-> <<>>]
KeyStr(f) == [kind |-> "str", s |-> f, n |-> 0, keys |-> <<f>>]
KeyList(fs) == [kind |-> "list", s |-> "", n |-> Len(fs), keys |-> fs]

\* a settings source that provides none of the options
NoSettings ==
    [ MONGODB_HOST |-> None,
      MONGODB_PORT |-> None,
      MONGODB_REPLICA_SET |-> None,
      MONGODB_REPLICA_SET_HOSTS |-> None,
      MONGODB_URI |-> None,
      MONGODB_COLLECTION |-> None,
      MONGODB_SEPARATE_COLLECTIONS |-> None,
      MONGODB_UNIQUE_KEY |-> KeyNone,
      MONGODB_BUFFER_DATA |-> None,
      MONGODB_ADD_TIMESTAMP |-> None,
      MONGODB_STOP_ON_DUPLICATE |-> None,
      MONGODB_GRID_FS_THRESHOLD_BYTES |-> None,
      MONGODB_GRID_FS_FIELD_TAG |-> None ]

\* MongoDBPipeline.config, the default options
DefaultConfig ==
    [ uri |-> StrV("mongodb://localhost:27017"),
      collection |-> StrV("items"),
      separate_collections |-> BoolV(FALSE),
      replica_set |-> None,
      unique_key |-> KeyNone,
      buffer |-> None,
      append_timestamp |-> BoolV(FALSE),
      stop_on_duplicate |-> IntV(0),
      grid_fs_threshold_bytes |-> None,
      grid_fs_field_tag |-> StrV("big_field") ]

\* the options configure() reads from the settings, by config key
Options ==
    [ uri |-> "MONGODB_URI",
      collection |-> "MONGODB_COLLECTION",
      separate_collections |-> "MONGODB_SEPARATE_COLLECTIONS",
      replica_set |-> "MONGODB_REPLICA_SET",
      unique_key |-> "MONGODB_UNIQUE_KEY",
      buffer |-> "MONGODB_BUFFER_DATA",
      append_timestamp |-> "MONGODB_ADD_TIMESTAMP",
      stop_on_duplicate |-> "MONGODB_STOP_ON_DUPLICATE",
      grid_fs_threshold_bytes |-> "MONGODB_GRID_FS_THRESHOLD_BYTES",
      grid_fs_field_tag |-> "MONGODB_GRID_FS_FIELD_TAG" ]

VARIABLES
    live,                \* the pipeline instances that exist
    fields,              \* Item.fields: the metadata of the declared fields
    settings,            \* per instance: spider.settings
    config,              \* MongoDBPipeline.config, a class attribute
    cls_item_buffer,     \* MongoDBPipeline.item_buffer, the class attribute
    own_buffer,          \* per instance: the instance attribute item_buffer
    current_item,        \* per instance: current_item
    duplicate_key_count, \* per instance: duplicate_key_count
    stop_on_duplicate,   \* per instance: stop_on_duplicate
    spider_name,         \* per instance: spider.name of the spider it serves
    collections,         \* per instance: self.collections, name -> collection
    phase,               \* per instance: "new", "open", "failed", "closed"
    connected,           \* per instance: a MongoDB client was created
    db,                  \* per collection name: its documents, in order
    indexes,             \* per collection name: the unique keys ensured
    grid_files,          \* the files GridFS holds; file i has ObjectId i
    close_requests,      \* per instance: engine.close_spider calls received
    utcnow,              \* the clock datetime.utcnow() reads
    calls,               \* process_item calls made so far
    closes,              \* per instance: close_spider calls made so far
    arrived,             \* per instance: the items passed and their transforms
    written,             \* the write attempts made, in order
    last                 \* per instance: what its latest call did

vars ==
    << live, fields, settings, config, cls_item_buffer, own_buffer,
       current_item, duplicate_key_count, stop_on_duplicate, spider_name,
       collections,
       phase, connected, db, indexes, grid_files, close_requests, utcnow,
       calls, closes, arrived, written, last >>

EmptyDoc == [f \in {} |-> None]

\* spider.name of the spider an instance serves
SpiderName(w) == spider_name[w]

\* the names a spider may have; "default" is the key under which the
\* registry holds the configured collection
OwnName(w) == "spider" \o IntToStr(w)
SpiderNames == {OwnName(w) : w \in Writer} \cup {"default"}

CollectionNames == {"items"} \cup SpiderNames

\* a registry without entries
NoCollections == [name \in {} |-> ""]

\* the value a call returned, or the exception it raised
Returned(kind, docs) == [kind |-> kind, docs |-> docs, exc |-> ""]
Raised(exc) == [kind |-> "raise", docs |-> <<>>, exc |-> exc]

\* the record of a call: its return value, the transformed item and grid
\* fields it computed, and the calls it made to its collaborators
NoCall ==
    [ op |-> "none", ret |-> Returned("none", <<>>), item |-> EmptyDoc,
      grid_fields |-> {}, trace |-> <<>>, puts |-> <<>>, stops |-> 0,
      fault |-> "none", before |-> <<>> ]

\* self.item_buffer: the instance attribute if assigned, else the class's
ItemBufferOfClass(w) == cls_item_buffer

ItemBuffer(w) ==
    IF own_buffer[w].has THEN own_buffer[w].items ELSE cls_item_buffer

InitNamed(writers, settingsSet, itemClasses, names) ==
    /\ live = writers
    /\ spider_name \in [Writer -> names]
    /\ \A w \in Writer \ writers : spider_name[w] = OwnName(w)
    /\ fields \in itemClasses
    /\ settings \in [Writer -> settingsSet]
    /\ \A w \in Writer \ writers : settings[w] = NoSettings
    /\ config = DefaultConfig
    /\ cls_item_buffer = <<>>
    /\ own_buffer = [w \in Writer |-> [has |-> FALSE, items |-> <<>>]]
    /\ current_item = [w \in Writer |-> 0]
    /\ duplicate_key_count = [w \in Writer |-> 0]
    /\ stop_on_duplicate = [w \in Writer |-> 0]
    /\ collections = [w \in Writer |-> NoCollections]
    /\ phase = [w \in Writer |-> "new"]
    /\ connected = [w \in Writer |-> FALSE]
    /\ db = [c \in CollectionNames |-> <<>>]
    /\ indexes = [c \in CollectionNames |-> {}]
    /\ grid_files = <<>>
    /\ close_requests = [w \in Writer |-> 0]
    /\ utcnow = 0
    /\ calls = 0
    /\ closes = [w \in Writer |-> 0]
    /\ arrived = [w \in Writer |-> <<>>]
    /\ written = <<>>
    /\ last = [w \in Writer |-> NoCall]

\* the instances `writers`, each serving a spider with a name of its own
InitFrom(writers, settingsSet, itemClasses) ==
    /\ InitNamed(writers, settingsSet, itemClasses, SpiderNames)
    /\ spider_name = [w \in Writer |-> OwnName(w)]

(***************************************************************************)
(* open_spider and configure.                                              *)
(***************************************************************************)
\* configure(), lines 140-159: each option the settings provide replaces
\* the value config holds
Configured(cfg, st) ==
    [k \in DOMAIN cfg |->
        IF ~not_set(st[Options[k]]) THEN st[Options[k]] ELSE cfg[k]]

\* the presentation types format() knows for a value of a kind
FormatTypes(kind) ==
    CASE kind = "int" -> {"b", "c", "d", "e", "E", "f", "F", "g", "G", "n",
                          "o", "x", "X", "%"}
      [] kind = "str" -> {"s"}
      [] OTHER -> {}

\* configure(), line 124: the presentation type of the port's field
PortFormatType == "i"

\* configure(), lines 116-128: the deprecated MONGODB_HOST and MONGODB_PORT
\* become the uri; format() raises ValueError for a presentation type the
\* value does not know
LegacyHost(cfg, st) ==
    IF not_set(st.MONGODB_HOST) THEN [exc |-> "", cfg |-> cfg]
    ELSE IF not_set(st.MONGODB_PORT)
    THEN [exc |-> "",
          cfg |-> [cfg EXCEPT !.uri =
                      StrV("mongodb://" \o Str(st.MONGODB_HOST) \o ":27017")]]
    ELSE IF PortFormatType \in FormatTypes(st.MONGODB_PORT.kind)
    THEN [exc |-> "",
          cfg |-> [cfg EXCEPT !.uri =
                      StrV("mongodb://" \o Str(st.MONGODB_HOST) \o ":"
                               \o Str(st.MONGODB_PORT))]]
    ELSE [exc |-> "ValueError", cfg |-> cfg]

\* configure(), lines 130-138: the deprecated MONGODB_REPLICA_SET_HOSTS
ReplicaSetHosts(cfg, st) ==
    IF ~not_set(st.MONGODB_REPLICA_SET) /\ ~not_set(st.MONGODB_REPLICA_SET_HOSTS)
    THEN [cfg EXCEPT !.uri = StrV("mongodb://" \o Str(st.MONGODB_REPLICA_SET_HOSTS))]
    ELSE cfg

IllegalConfigSingleKey(cfg) == Truthy(cfg.buffer) /\ cfg.unique_key.kind = "str"

\* configure(), lines 161-168: the illegal configuration
IllegalConfig(cfg) == Truthy(cfg.buffer) /\ Truthy(cfg.unique_key)

\* configure(): the exception it raises, if any, and config as it leaves it
Configure(cfg, st) ==
    LET legacy == LegacyHost(cfg, st)
        merged == Configured(ReplicaSetHosts(legacy.cfg, st), st)
    IN  IF legacy.exc # "" THEN legacy
        ELSE [exc |-> IF IllegalConfig(merged) THEN "SyntaxError" ELSE "",
              cfg |-> merged]

NegativeStopBelowMinusOne(cfg) ==
    Truthy(cfg.stop_on_duplicate) /\ cfg.stop_on_duplicate.n < -1

\* open_spider, lines 95-106: a negative stop_on_duplicate option
NegativeStop(cfg) ==
    Truthy(cfg.stop_on_duplicate) /\ cfg.stop_on_duplicate.n < 0

\* open_spider(spider): configure, connect, set up the collections and
\* read the stop_on_duplicate option
OpenSpider(w, conn_ok) ==
    LET configured == Configure(config, settings[w])
        cfg == configured.cfg
        ret == IF configured.exc # "" THEN Raised(configured.exc)
               ELSE IF ~conn_ok THEN Raised("ConnectionFailure")
               ELSE IF NegativeStop(cfg) THEN Raised("SyntaxError")
               ELSE Returned("none", <<>>)
        connects == configured.exc = "" /\ conn_ok
    IN  /\ w \in live
        /\ phase[w] = "new"
        /\ config' = cfg
        /\ connected' = [connected EXCEPT ![w] = connects]
        /\ collections' = [collections EXCEPT ![w] =
              IF connects THEN [name \in {"default"} |-> cfg.collection.s] ELSE @]
        /\ stop_on_duplicate' = [stop_on_duplicate EXCEPT ![w] =
              IF ret.kind = "raise" THEN @
              ELSE IF Truthy(cfg.stop_on_duplicate) THEN cfg.stop_on_duplicate.n
              ELSE 0]
        /\ phase' = [phase EXCEPT ![w] = IF ret.kind = "raise" THEN "failed" ELSE "open"]
        /\ last' = [last EXCEPT ![w] = [NoCall EXCEPT !.op = "open_spider", !.ret = ret]]
        /\ UNCHANGED << live, fields, settings, spider_name, cls_item_buffer,
                        own_buffer, current_item, duplicate_key_count, db, indexes,
                        grid_files, close_requests, utcnow, calls, closes,
                        arrived, written >>

(***************************************************************************)
(* insert_item and get_collection.                                         *)
(***************************************************************************)
\* an entry of the item buffer: the pair (item, grid_fields)
Entry(item, grid_fields) == [item |-> item, grid_fields |-> grid_fields]

\* insert_item, lines 238-241 and 249-252: every key of the item that is a
\* grid field is put into GridFS as str(value) and replaced by the file's
\* id; i walks the keys in the order the dict iterates them
RECURSIVE PutGridFields(_, _, _, _)
PutGridFields(item, grid_fields, files, i) ==
    IF i > Len(FieldOrder) THEN [item |-> item, files |-> files]
    ELSE LET key == FieldOrder[i]
         IN  IF key \in DOMAIN item /\ key \in grid_fields
             THEN PutGridFields(With(item, key, Oid(Len(files) + 1)),
                                grid_fields,
                                Append(files, Str(item[key])), i + 1)
             ELSE PutGridFields(item, grid_fields, files, i + 1)

\* insert_item, lines 242-243 and 253-254
AppendTimestamp(item) ==
    IF Truthy(config.append_timestamp)
    THEN With(item, "scrapy-mongodb", Ts(utcnow))
    ELSE item

RECURSIVE PrepareItemsFirstOnly(_, _, _)
PrepareItemsFirstOnly(container, files, done) ==
    IF container = <<>> THEN [items |-> done, files |-> files]
    ELSE LET ic == Head(container)
             put == IF done = <<>>
                    THEN PutGridFields(ic.item, ic.grid_fields, files, 1)
                    ELSE [item |-> ic.item, files |-> files]
         IN  PrepareItemsFirstOnly(Tail(container), put.files,
                                   Append(done, AppendTimestamp(put.item)))

\* insert_item, lines 235-255: the items of the container one after the
\* other, each with its grid fields put and its timestamp appended.  The
\* items are changed in place, so the container holds the changed items too
RECURSIVE PrepareItems(_, _, _)
PrepareItems(container, files, done) ==
    IF container = <<>> THEN [items |-> done, files |-> files]
    ELSE LET ic == Head(container)
             put == PutGridFields(ic.item, ic.grid_fields, files, 1)
         IN  PrepareItems(Tail(container), put.files,
                          Append(done, AppendTimestamp(put.item)))

GetCollectionIndexedOnCreation(w) ==
    LET separate == Truthy(config.separate_collections)
        name == SpiderName(w)
        cached == name \in DOMAIN collections[w]
    IN  [ collection_name |-> IF separate THEN name ELSE config.collection.s,
          collection |-> IF separate
                         THEN (IF cached THEN collections[w][name] ELSE name)
                         ELSE collections[w]["default"],
          registry |-> IF separate /\ ~cached THEN With(collections[w], name, name)
                       ELSE collections[w],
          ensure_index |-> separate /\ ~cached /\ Truthy(config.unique_key) ]

\* get_collection(name): the collection's display name, the name under
\* which the database holds it, the registry after the lookup and whether
\* a unique index was ensured.  With separate collections the registry is
\* asked for the name first, and a name it lacks is added
GetCollection(w) ==
    LET separate == Truthy(config.separate_collections)
        name == SpiderName(w)
        cached == name \in DOMAIN collections[w]
    IN  [ collection_name |-> IF separate THEN name ELSE config.collection.s,
          collection |-> IF separate
                         THEN (IF cached THEN collections[w][name] ELSE name)
                         ELSE collections[w]["default"],
          registry |-> IF separate /\ ~cached THEN With(collections[w], name, name)
                       ELSE collections[w],
          ensure_index |-> Truthy(config.unique_key) ]

\* what a write to the store may do: succeed, raise DuplicateKeyError for
\* the documents `bad` of the n passed, or raise another store error
InsertOutcomes(n) ==
    {[fault |-> "ok", bad |-> {}], [fault |-> "err", bad |-> {}]}
        \cup {[fault |-> "dup", bad |-> B] : B \in SUBSET (1..n) \ {{}}}

UpdateOutcomes == {[fault |-> "ok", bad |-> {}], [fault |-> "err", bad |-> {}]}

\* the elements of seq whose index is not in drop
RECURSIVE Keep(_, _, _)
Keep(seq, drop, i) ==
    IF i > Len(seq) THEN <<>>
    ELSE (IF i \in drop THEN <<>> ELSE <<seq[i]>>) \o Keep(seq, drop, i + 1)

\* collection.insert(docs, continue_on_error=True): the documents that do
\* not violate a unique index are stored
Insert(docs_in, coll, out) ==
    CASE out.fault = "ok" -> coll \o docs_in
      [] out.fault = "dup" -> coll \o Keep(docs_in, out.bad, 1)
      [] OTHER -> coll

\* a document matches a filter when it holds every field of the filter
\* with the filter's value
Matches(doc, filter) ==
    \A k \in DOMAIN filter : k \in DOMAIN doc /\ doc[k] = filter[k]

\* collection.update(key, item, upsert=True): the first document matching
\* the filter is replaced by the item; without a match the item is inserted
Update(filter, item, coll, out) ==
    IF out.fault # "ok" THEN coll
    ELSE IF \E i \in 1..Len(coll) : Matches(coll[i], filter)
    THEN LET first == CHOOSE i \in 1..Len(coll) :
                          /\ Matches(coll[i], filter)
                          /\ \A j \in 1..(i - 1) : ~Matches(coll[j], filter)
         IN  [coll EXCEPT ![first] = item]
    ELSE Append(coll, item)

\* a write attempt as the store sees it, and the time of the call making it
Write(w, op, coll, docs_in, filter, out) ==
    [ by |-> w, op |-> op, coll |-> coll, docs |-> docs_in,
      filter |-> filter, fault |-> out.fault, bad |-> out.bad,
      at |-> utcnow + 1 ]

CountedDuplicatesAnyThreshold(w) == duplicate_key_count[w] + 1

\* insert_item, lines 267-273: the duplicate counter after a
\* DuplicateKeyError, and whether the engine is asked to close the spider
CountedDuplicates(w) ==
    IF stop_on_duplicate[w] > 0 THEN duplicate_key_count[w] + 1
    ELSE duplicate_key_count[w]

StopRequestedPastThreshold(w) ==
    /\ stop_on_duplicate[w] > 0
    /\ duplicate_key_count[w] + 1 > stop_on_duplicate[w]

StopRequested(w) ==
    /\ stop_on_duplicate[w] > 0
    /\ duplicate_key_count[w] + 1 >= stop_on_duplicate[w]

AfterInsertRaisesAtThreshold(w, tried) ==
    CASE tried.fault = "ok" -> tried
      [] tried.fault = "dup" ->
           [tried EXCEPT
               !.duplicate_key_count = CountedDuplicates(w),
               !.stops = IF StopRequested(w) THEN 1 ELSE 0,
               !.ret = IF StopRequested(w) THEN Raised("DuplicateKeyError")
                       ELSE tried.ret]
      [] OTHER -> [tried EXCEPT !.ret = Raised("StoreError")]

AfterInsertCountsDocuments(w, tried) ==
    CASE tried.fault = "ok" -> tried
      [] tried.fault = "dup" ->
           [tried EXCEPT
               !.duplicate_key_count =
                   IF stop_on_duplicate[w] > 0
                   THEN duplicate_key_count[w]
                            + Cardinality(tried.written[Len(tried.written)].bad)
                   ELSE duplicate_key_count[w],
               !.stops = IF StopRequested(w) THEN 1 ELSE 0,
               !.trace = IF StopRequested(w)
                         THEN Append(tried.trace, "close_spider")
                         ELSE tried.trace]
      [] OTHER -> [tried EXCEPT !.ret = Raised("StoreError")]

\* insert_item, lines 260-273: the call after collection.insert was tried.
\* DuplicateKeyError is caught and counted, any other error propagates
AfterInsert(w, tried) ==
    CASE tried.fault = "ok" -> tried
      [] tried.fault = "dup" ->
           [tried EXCEPT
               !.duplicate_key_count = CountedDuplicates(w),
               !.stops = IF StopRequested(w) THEN 1 ELSE 0,
               !.trace = IF StopRequested(w)
                         THEN Append(tried.trace, "close_spider")
                         ELSE tried.trace]
      [] OTHER -> [tried EXCEPT !.ret = Raised("StoreError")]

\* insert_item(item_container, spider).  The container is a list (is_list)
\* or one pair; out is what the store does with the write.  The result
\* names every variable the call changes and what the call returns.
InsertItem(w, container, is_list, out) ==
    LET prep == PrepareItems(container, grid_files, <<>>)
        items == prep.items
        item == items[1]
        gc == GetCollection(w)
        ensured == IF gc.ensure_index
                   THEN [indexes EXCEPT ![gc.collection] = @ \cup {config.unique_key.keys}]
                   ELSE indexes
        lookup == IF gc.ensure_index THEN <<"ensure_index">> ELSE <<>>
        base == [ items |-> items, files |-> prep.files,
                  registry |-> gc.registry, indexes |-> ensured,
                  db |-> db, written |-> written, trace |-> lookup,
                  duplicate_key_count |-> duplicate_key_count[w],
                  stops |-> 0, fault |-> "none",
                  ret |-> Returned(IF is_list THEN "list" ELSE "item", items) ]
    IN  IF config.unique_key.kind = "none"
        THEN LET wr == Write(w, "insert", gc.collection, items, EmptyDoc, out)
                 tried == [base EXCEPT
                             !.db = [db EXCEPT ![gc.collection] = Insert(items, @, out)],
                             !.written = Append(written, wr),
                             !.fault = out.fault,
                             !.trace = Append(lookup, "insert")]
             IN  AfterInsert(w, tried)
        ELSE IF is_list
             THEN [base EXCEPT !.ret = Raised("TypeError")]
             ELSE IF \E i \in 1..Len(config.unique_key.keys) :
                        config.unique_key.keys[i] \notin DOMAIN item
             THEN [base EXCEPT !.ret = Raised("KeyError")]
             ELSE LET filter == [k \in {config.unique_key.keys[i] :
                                         i \in 1..Len(config.unique_key.keys)}
                                    |-> item[k]]
                      wr == Write(w, "update", gc.collection, items, filter, out)
                      tried == [base EXCEPT
                                  !.db = [db EXCEPT ![gc.collection] =
                                              Update(filter, item, @, out)],
                                  !.written = Append(written, wr),
                                  !.fault = out.fault,
                                  !.trace = Append(lookup, "update")]
                  IN  IF out.fault = "ok" THEN tried
                      ELSE [tried EXCEPT !.ret = Raised("StoreError")]

\* the outcomes the store may give the write insert_item makes for n items
Outcomes(n) ==
    IF config.unique_key.kind = "none" THEN InsertOutcomes(n) ELSE UpdateOutcomes

(***************************************************************************)
(* process_item and close_spider.                                          *)
(***************************************************************************)
\* process_item, lines 181-185: the declared fields whose metadata has the
\* configured tag set to True
TaggedFields ==
    {f \in Fields : config.grid_fs_field_tag.s \in fields[f].tags}

\* BaseItemExporter.serialize_field: the field's serializer, by default
\* the identity
SerializeField(meta, v) ==
    IF meta.serializer = "str" THEN StrV(Str(v)) ELSE v

\* process_item, line 187: dict(self._get_serialized_fields(item)), the
\* populated fields serialized
Serialized(raw) == [f \in DOMAIN raw |-> SerializeField(fields[f], raw[f])]

\* process_item, lines 191-198: the fields whose serialized value measures
\* more than the threshold
Oversized(item) ==
    IF config.grid_fs_threshold_bytes.kind # "none"
    THEN {f \in DOMAIN item : getsizeof(item[f]) > config.grid_fs_threshold_bytes.n}
    ELSE {}

NotEmptyKeepsBlank(item) ==
    LET kept == {f \in DOMAIN item : item[f] # None}
    IN  [f \in kept |-> item[f]]

\* process_item, line 200: the fields that are neither None nor ''
NotEmpty(item) ==
    LET kept == {f \in DOMAIN item : item[f] # None /\ item[f] # StrV("")}
    IN  [f \in kept |-> item[f]]

\* process_item, lines 180-200: the pair (item, grid_fields)
Transform(raw) ==
    Entry(NotEmpty(Serialized(raw)), TaggedFields \cup Oversized(Serialized(raw)))

\* the items of the buffer entries / the entries with their items replaced
ItemsOf(buf) == [i \in 1..Len(buf) |-> buf[i].item]
WithItems(buf, items) == [i \in 1..Len(buf) |-> Entry(items[i], buf[i].grid_fields)]

\* self.item_buffer assigned or changed in place: an assignment creates the
\* instance attribute, a change in place reaches the list the name holds
AssignBufferForgotten(w, buf) == own_buffer
AssignBuffer(w, buf) == [own_buffer EXCEPT ![w] = [has |-> TRUE, items |-> buf]]
MutateOwn(w, buf) ==
    IF own_buffer[w].has THEN [own_buffer EXCEPT ![w].items = buf] ELSE own_buffer
MutateClass(w, buf) ==
    IF own_buffer[w].has THEN cls_item_buffer ELSE buf

\* the state after insert_item returned r
Inserted(w, r) ==
    /\ grid_files' = r.files
    /\ collections' = [collections EXCEPT ![w] = r.registry]
    /\ indexes' = r.indexes
    /\ db' = r.db
    /\ written' = r.written
    /\ duplicate_key_count' = [duplicate_key_count EXCEPT ![w] = r.duplicate_key_count]
    /\ close_requests' = [close_requests EXCEPT ![w] = @ + r.stops]

NotInserted ==
    UNCHANGED << grid_files, collections, indexes, db, written,
                 duplicate_key_count, close_requests >>

\* the call record of a call that ran insert_item with result r
CallRecord(op, entry, before, r) ==
    [ op |-> op, ret |-> r.ret, item |-> entry.item,
      grid_fields |-> entry.grid_fields, trace |-> r.trace,
      puts |-> SubSeq(r.files, Len(grid_files) + 1, Len(r.files)),
      stops |-> r.stops, fault |-> r.fault, before |-> before ]

\* process_item(item, spider) with a buffer size configured, lines 202-211
ProcessBuffered(w, entry, out) ==
    LET before == ItemBuffer(w)
        buf == Append(before, entry)
        count == current_item[w] + 1
        r == InsertItem(w, buf, TRUE, out)
        flushed == WithItems(buf, r.items)
    IN  IF IntV(count) = config.buffer
        THEN /\ current_item' = [current_item EXCEPT ![w] = 0]
             /\ Inserted(w, r)
             /\ cls_item_buffer' = MutateClass(w, flushed)
             /\ own_buffer' = AssignBuffer(w, <<>>)
             /\ last' = [last EXCEPT ![w] = CallRecord("process_item", entry, before, r)]
        ELSE /\ current_item' = [current_item EXCEPT ![w] = count]
             /\ NotInserted
             /\ cls_item_buffer' = MutateClass(w, buf)
             /\ own_buffer' = MutateOwn(w, buf)
             /\ last' = [last EXCEPT ![w] =
                   [NoCall EXCEPT !.op = "process_item",
                                  !.ret = Returned("item", <<entry.item>>),
                                  !.item = entry.item,
                                  !.grid_fields = entry.grid_fields,
                                  !.before = before]]

\* process_item(item, spider) without a buffer size, line 213
ProcessUnbuffered(w, entry, out) ==
    LET r == InsertItem(w, <<entry>>, FALSE, out)
    IN  /\ Inserted(w, r)
        /\ last' = [last EXCEPT ![w] =
              CallRecord("process_item", entry, ItemBuffer(w), r)]
        /\ UNCHANGED << current_item, cls_item_buffer, own_buffer >>

\* the number of items the write of this process_item call passes, 0 when
\* the call writes nothing
WriteSize(w) ==
    IF ~Truthy(config.buffer) THEN 1
    ELSE IF IntV(current_item[w] + 1) = config.buffer THEN Len(ItemBuffer(w)) + 1
    ELSE 0

\* process_item(item, spider)
ProcessItem(w, raw, out) ==
    /\ w \in live
    /\ phase[w] = "open"
    /\ calls < MaxCalls
    /\ calls' = calls + 1
    /\ utcnow' = utcnow + 1
    /\ arrived' = [arrived EXCEPT ![w] = Append(@,
          [raw |-> raw, item |-> Transform(raw).item,
           grid_fields |-> Transform(raw).grid_fields, at |-> utcnow + 1])]
    /\ IF Truthy(config.buffer)
       THEN ProcessBuffered(w, Transform(raw), out)
       ELSE ProcessUnbuffered(w, Transform(raw), out)
    /\ UNCHANGED << live, fields, settings, config, stop_on_duplicate,
                    spider_name, phase, connected, closes >>

\* close_spider(spider), lines 222-223: a non-empty buffer is inserted; the
\* buffer is left as it is, with its items as insert_item changed them
CloseBuffer(w, out) ==
    LET before == ItemBuffer(w)
        r == InsertItem(w, before, TRUE, out)
        after == WithItems(before, r.items)
    IN  /\ w \in live
        /\ closes' = [closes EXCEPT ![w] = @ + 1]
        /\ utcnow' = utcnow + 1
        /\ phase' = [phase EXCEPT ![w] = "closed"]
        /\ IF before # <<>>
           THEN /\ Inserted(w, r)
                /\ cls_item_buffer' = MutateClass(w, after)
                /\ own_buffer' = MutateOwn(w, after)
                /\ last' = [last EXCEPT ![w] =
                      [CallRecord("close_spider", Entry(EmptyDoc, {}), before, r)
                          EXCEPT !.ret = IF r.ret.kind = "raise" THEN r.ret
                                         ELSE Returned("none", <<>>)]]
           ELSE /\ NotInserted
                /\ UNCHANGED << cls_item_buffer, own_buffer >>
                /\ last' = [last EXCEPT ![w] = [NoCall EXCEPT !.op = "close_spider"]]
        /\ UNCHANGED << live, fields, settings, config, current_item,
                        stop_on_duplicate, spider_name, connected, calls,
                        arrived >>

\* close_spider(spider) as the engine calls it, once for an open spider
CloseSpider(w, out) ==
    /\ phase[w] = "open"
    /\ CloseBuffer(w, out)

\* close_spider(spider) called again for a spider that was closed
CloseSpiderAgain(w, out) ==
    /\ phase[w] = "closed"
    /\ closes[w] < MaxCloses
    /\ CloseBuffer(w, out)

(***************************************************************************)
(* The specifications.                                                     *)
(***************************************************************************)
\* a step of the engine: it opens a spider, passes the pipeline an item the
\* spider yielded, or closes the spider
Step(items) ==
    \/ \E w \in Writer, conn_ok \in BOOLEAN : OpenSpider(w, conn_ok)
    \/ \E w \in Writer, raw \in items :
          \E out \in (IF WriteSize(w) = 0 THEN {[fault |-> "ok", bad |-> {}]}
                      ELSE Outcomes(WriteSize(w))) :
              ProcessItem(w, raw, out)
    \/ \E w \in Writer :
          \E out \in (IF ItemBuffer(w) = <<>> THEN {[fault |-> "ok", bad |-> {}]}
                      ELSE Outcomes(Len(ItemBuffer(w)))) :
              CloseSpider(w, out)

Next == Step(RunItems)

\* the settings sources of a run: a buffer size, a unique key and a stop
\* threshold, each provided or not
BufferSettings == {None} \cup {IntV(n) : n \in 0..MaxBuffer}
KeySettings == {KeyNone, KeyStr("id"), KeyList(<<"id", "body">>)}
StopSettings == {None} \cup {IntV(n) : n \in -1..MaxStop}

RunSettings ==
    { [NoSettings EXCEPT !.MONGODB_BUFFER_DATA = b,
                         !.MONGODB_UNIQUE_KEY = k,
                         !.MONGODB_STOP_ON_DUPLICATE = t] :
        b \in BufferSettings, k \in KeySettings, t \in StopSettings }



\* one pipeline instance, the items of a plain Item class
Init == InitFrom({1}, RunSettings, {PlainItem})

Spec == Init /\ [][Next]_vars

\* the settings sources of a run that routes fields to GridFS: a size
\* threshold, a buffer size and a unique key, each provided or not, or a
\* timestamp to append
ThresholdSettings == {None, IntV(StrOverhead + 1)}

TransformSettings ==
    { [NoSettings EXCEPT !.MONGODB_GRID_FS_THRESHOLD_BYTES = t,
                         !.MONGODB_BUFFER_DATA = b,
                         !.MONGODB_UNIQUE_KEY = k] :
        t \in ThresholdSettings, b \in {None, IntV(2)},
        k \in {KeyNone, KeyStr("id")} }
    \cup { [NoSettings EXCEPT !.MONGODB_ADD_TIMESTAMP = BoolV(TRUE),
                              !.MONGODB_BUFFER_DATA = b] :
             b \in {None, IntV(2)} }

\* one pipeline instance, the items of an Item class that tags a field or
\* declares a serializer
InitTransform ==
    InitFrom({1}, TransformSettings, {BigBodyItem, BigIdItem, StrBodyItem})

NextTransform == Step(TransformItems)

SpecTransform == InitTransform /\ [][NextTransform]_vars

\* the settings sources of a run that may keep a collection per spider,
\* with a unique key or a buffer size provided or not
RoutingSettings ==
    { [NoSettings EXCEPT !.MONGODB_SEPARATE_COLLECTIONS = c,
                         !.MONGODB_UNIQUE_KEY = k,
                         !.MONGODB_BUFFER_DATA = b] :
        c \in {None, BoolV(FALSE), BoolV(TRUE)},
        k \in {KeyNone, KeyStr("id")}, b \in {None, IntV(2)} }

\* one pipeline instance, serving a spider of any name
InitRouting == InitNamed({1}, RoutingSettings, {PlainItem}, SpiderNames)

SpecRouting == InitRouting /\ [][Next]_vars

\* the settings sources of a run configured the deprecated way: a host, a
\* port given as a number or as text, the hosts of a replica set, and a
\* uri, each provided or not
LegacySettings ==
    { [NoSettings EXCEPT !.MONGODB_HOST = h,
                         !.MONGODB_PORT = p,
                         !.MONGODB_REPLICA_SET = r,
                         !.MONGODB_REPLICA_SET_HOSTS = rh,
                         !.MONGODB_URI = u] :
        h \in {None, StrV("h")}, p \in {None, IntV(27018), StrV("27018")},
        r \in {None, StrV("rs")}, rh \in {None, StrV("h1,h2")},
        u \in {None, StrV("mongodb://u")} }

\* one pipeline instance configured the deprecated way
InitLegacy == InitFrom({1}, LegacySettings, {PlainItem})

SpecLegacy == InitLegacy /\ [][Next]_vars

\* the settings sources of a run that buffers or not, without a unique key
BatchSettings ==
    { [NoSettings EXCEPT !.MONGODB_BUFFER_DATA = b] : b \in BufferSettings }

\* one pipeline instance whose spider may be closed more than once
InitReclose == InitFrom({1}, BatchSettings, {PlainItem})

NextReclose ==
    \/ Next
    \/ \E w \in Writer :
          \E out \in (IF ItemBuffer(w) = <<>> THEN {[fault |-> "ok", bad |-> {}]}
                      ELSE Outcomes(Len(ItemBuffer(w)))) :
              CloseSpiderAgain(w, out)

SpecReclose == InitReclose /\ [][NextReclose]_vars

\* two pipeline instances in one process, both buffering two items
InitShared ==
    InitFrom(Writer, {[NoSettings EXCEPT !.MONGODB_BUFFER_DATA = IntV(2)]},
             {PlainItem})

SpecShared == InitShared /\ [][Next]_vars

(***************************************************************************)
(* Properties.                                                             *)
(***************************************************************************)
\* the write attempts an instance made
WritesBy(w) == {i \in 1..Len(written) : written[i].by = w}

\* the writes among the collaborator calls of one call
WritesIn(trace) == {i \in 1..Len(trace) : trace[i] \in {"insert", "update"}}

\* the transformed items of the arrivals from..to of an instance
ArrivedItems(w, from, to) ==
    [i \in 1..(to - from + 1) |-> arrived[w][from + i - 1].item]

\* C1: with a buffer size N and no unique key, a process_item call that
\* brings the count of items to a non-multiple of N writes nothing and
\* leaves the items buffered; the call that brings it to a multiple of N
\* makes exactly one insert, of the N latest items in arrival order, and
\* leaves the buffer empty and the item count 0.
C1_FlushAtNth ==
    \A w \in live :
        (phase[w] = "open" /\ Truthy(config.buffer) /\ last[w].op = "process_item")
        => LET n == config.buffer.n
               k == Len(arrived[w])
           IN  /\ Cardinality(WritesBy(w)) = k \div n
               /\ current_item[w] = k % n
               /\ IF k % n # 0
                  THEN /\ WritesIn(last[w].trace) = {}
                       /\ ItemsOf(ItemBuffer(w)) = ArrivedItems(w, k - (k % n) + 1, k)
                  ELSE /\ Cardinality(WritesIn(last[w].trace)) = 1
                       /\ written[Len(written)].op = "insert"
                       /\ written[Len(written)].docs = ArrivedItems(w, k - n + 1, k)
                       /\ ItemBuffer(w) = <<>>

C1_Witness ==
    /\ phase[1] = "open"
    /\ config.buffer = IntV(3)
    /\ Len(arrived[1]) = 3
    /\ Len(written) = 1
    /\ Len(written[1].docs) = 3
    /\ ItemBuffer(1) = <<>>
    /\ current_item[1] = 0

\* the inserts of an instance that raised DuplicateKeyError
Violations(w) == {i \in WritesBy(w) : written[i].fault = "dup"}

\* C2, as claimed: with no unique key and a stop threshold T > 0 the
\* engine is asked to close the spider exactly once, at the T-th
\* violation, and never again at a later one.
C2_StopFiresExactlyOnce ==
    \A w \in live :
        (phase[w] # "new" /\ config.unique_key.kind = "none" /\ stop_on_duplicate[w] > 0)
        => close_requests[w] =
              (IF Cardinality(Violations(w)) >= stop_on_duplicate[w] THEN 1 ELSE 0)

\* C2, amended: with no unique key and a stop threshold T > 0 the engine
\* is asked to close the spider at the T-th violation and again at every
\* later violation, never at an earlier one and never by a call whose
\* insert raised no violation.
C2_StopFiresFromThreshold ==
    \A w \in live :
        (phase[w] # "new" /\ config.unique_key.kind = "none" /\ stop_on_duplicate[w] > 0)
        => /\ close_requests[w] =
                (IF Cardinality(Violations(w)) >= stop_on_duplicate[w]
                 THEN Cardinality(Violations(w)) - stop_on_duplicate[w] + 1
                 ELSE 0)
           /\ last[w].stops =
                (IF /\ last[w].fault = "dup"
                    /\ Cardinality(Violations(w)) >= stop_on_duplicate[w]
                 THEN 1 ELSE 0)

C2_Witness ==
    /\ config.unique_key.kind = "none"
    /\ stop_on_duplicate[1] = 2
    /\ Cardinality(Violations(1)) = 3
    /\ close_requests[1] = 2
    /\ last[1].stops = 1

\* C3: close_spider makes exactly one insert when the buffer holds items,
\* of exactly the items that arrived since the last flush, in arrival
\* order; with an empty buffer it writes nothing.
C3_CloseFlushesRemainder ==
    \A w \in live :
        phase[w] = "closed"
        => LET k == Len(arrived[w])
               r == current_item[w]
           IN  /\ last[w].op = "close_spider"
               /\ Len(last[w].before) = r
               /\ IF r = 0
                  THEN /\ last[w].trace = <<>>
                       /\ \A i \in WritesBy(w) : written[i].at < utcnow
                  ELSE /\ Cardinality(WritesIn(last[w].trace)) = 1
                       /\ {i \in WritesBy(w) : written[i].at = utcnow} = {Len(written)}
                       /\ written[Len(written)].op = "insert"
                       /\ written[Len(written)].docs = ArrivedItems(w, k - r + 1, k)

C3_Witness ==
    /\ phase[1] = "closed"
    /\ config.buffer = IntV(3)
    /\ Len(arrived[1]) = 2
    /\ Len(written) = 1
    /\ Len(written[1].docs) = 2

\* C4, as claimed: without a buffer size every process_item call makes
\* exactly one write of its one item, so the writes are one per item in
\* arrival order, and nothing is added to the item buffer.
C4_OneWritePerItem ==
    \A w \in live :
        (phase[w] = "open" /\ ~Truthy(config.buffer) /\ last[w].op = "process_item")
        => /\ Cardinality(WritesIn(last[w].trace)) = 1
           /\ Len(written) = Len(arrived[w])
           /\ \A i \in 1..Len(written) :
                 /\ written[i].by = w
                 /\ written[i].docs = <<arrived[w][i].item>>
           /\ ItemBuffer(w) = <<>>

\* the values an item holds for the fields of the unique key
ItemKey(item) ==
    [k \in {config.unique_key.keys[i] : i \in 1..Len(config.unique_key.keys)}
        \cap DOMAIN item |-> item[k]]

\* the arrivals of an instance whose upsert succeeded
Upserted(w) ==
    {i \in 1..Len(arrived[w]) :
        \E j \in WritesBy(w) :
            /\ written[j].at = arrived[w][i].at
            /\ written[j].op = "update"
            /\ written[j].fault = "ok"}

\* the document the store was handed for an arrival
DocumentOf(w, i) ==
    LET j == CHOOSE j \in WritesBy(w) : written[j].at = arrived[w][i].at
    IN  written[j].docs[1]

\* C5, as claimed: with a unique key the collection holds at most one
\* document per distinct key value of the items, and it is the document
\* of the most recent item with that key.
C5_OneDocumentPerItemKey ==
    \A w \in live :
        (phase[w] \in {"open", "closed"} /\ config.unique_key.kind # "none")
        => LET coll == db[GetCollection(w).collection]
           IN  /\ Len(coll) = Cardinality({ItemKey(arrived[w][i].item) : i \in Upserted(w)})
               /\ \A i \in Upserted(w) :
                     (\A l \in Upserted(w) :
                         ItemKey(arrived[w][l].item) = ItemKey(arrived[w][i].item) => l <= i)
                     => \E d \in 1..Len(coll) : coll[d] = DocumentOf(w, i)

\* C6: a configuration with both a buffer size and a unique key makes
\* open_spider raise the configuration error before a connection is opened
\* and before an item is processed; no open or closed pipeline has both.
C6_BufferExcludesUniqueKey ==
    \A w \in live :
        /\ phase[w] \in {"open", "closed"}
           => ~(Truthy(config.buffer) /\ Truthy(config.unique_key))
        /\ (phase[w] # "new" /\ Truthy(config.buffer) /\ Truthy(config.unique_key))
           => /\ phase[w] = "failed"
              /\ last[w].op = "open_spider"
              /\ last[w].ret = Raised("SyntaxError")
              /\ ~connected[w]
              /\ collections[w] = NoCollections
              /\ arrived[w] = <<>>
              /\ written = <<>>

C6_Witness ==
    /\ phase[1] = "failed"
    /\ settings[1].MONGODB_BUFFER_DATA = IntV(2)
    /\ settings[1].MONGODB_UNIQUE_KEY = KeyList(<<"id", "body">>)
    /\ last[1].ret = Raised("SyntaxError")
    /\ ~connected[1]

\* C7, as claimed: with a buffer size every process_item call that returns
\* returns the one transformed item it was given, the call that flushes
\* the buffer too.
C7_ReturnsTheItem ==
    \A w \in live :
        (/\ Truthy(config.buffer)
         /\ last[w].op = "process_item"
         /\ last[w].ret.kind # "raise")
        => /\ last[w].ret.kind = "item"
           /\ last[w].ret.docs = <<last[w].item>>

\* C8: a call whose insert raised DuplicateKeyError returns normally:
\* process_item returns the item or items it passed to the insert,
\* close_spider returns, with or without a stop threshold and whether or
\* not the threshold is reached.
C8_DuplicateNeverRaised ==
    \A w \in live :
        last[w].fault = "dup"
        => /\ last[w].ret.kind # "raise"
           /\ written[Len(written)].op = "insert"
           /\ last[w].op = "process_item"
              => last[w].ret.docs = written[Len(written)].docs
           /\ last[w].op = "close_spider" => phase[w] = "closed"

C8_Witness ==
    /\ last[1].op = "close_spider"
    /\ last[1].fault = "dup"
    /\ last[1].stops = 1
    /\ last[1].ret.kind = "none"
    /\ duplicate_key_count[1] = 2

\* the arrival whose item is document p of write j: a write passes the
\* latest arrivals of its instance, in arrival order
ArrivalOf(w, j, p) ==
    LET upto == Cardinality({i \in 1..Len(arrived[w]) : arrived[w][i].at <= written[j].at})
    IN  arrived[w][upto - Len(written[j].docs) + p]

\* C9, as claimed: for every field of an item that is tagged for GridFS
\* (and not dropped as None or '') the stored document holds a file id and
\* GridFS holds the value the item had for the field, for one item and
\* for every item of a batch.
C9_TaggedFieldsStoredAsGiven ==
    \A w \in live : \A j \in WritesBy(w) :
        written[j].fault = "ok"
        => \A p \in 1..Len(written[j].docs) :
              \A f \in TaggedFields \cap DOMAIN ArrivalOf(w, j, p).item :
                 LET doc == written[j].docs[p]
                 IN  /\ f \in DOMAIN doc
                     /\ doc[f].kind = "oid"
                     /\ doc[f].n \in 1..Len(grid_files)
                     /\ StrV(grid_files[doc[f].n]) = ArrivalOf(w, j, p).raw[f]

\* C9, amended: for every tagged field of an item whose serialized value
\* is neither None nor '' the document handed to the store holds a file
\* id and GridFS holds str() of the serialized value, for one item and
\* for every item of a batch.
C9_TaggedFieldsStoredAsStr ==
    \A w \in live : \A j \in WritesBy(w) :
        \A p \in 1..Len(written[j].docs) :
            \A f \in TaggedFields \cap DOMAIN ArrivalOf(w, j, p).item :
               LET doc == written[j].docs[p]
               IN  /\ f \in DOMAIN doc
                   /\ doc[f].kind = "oid"
                   /\ doc[f].n \in 1..Len(grid_files)
                   /\ grid_files[doc[f].n] = Str(ArrivalOf(w, j, p).item[f])

C9_Witness ==
    /\ fields = BigBodyItem
    /\ Len(written) = 1
    /\ Len(written[1].docs) = 2
    /\ arrived[1][1].raw = [id |-> StrV("a"), body |-> IntV(7)]
    /\ arrived[1][2].raw = [id |-> StrV("a"), body |-> StrV("xx")]
    /\ written[1].docs = <<[id |-> StrV("a"), body |-> Oid(1)],
                           [id |-> StrV("a"), body |-> Oid(2)]>>
    /\ grid_files = <<"7", "xx">>

\* the grid fields of the entries that the entries' items hold
RECURSIVE RoutedCount(_)
RoutedCount(entries) ==
    IF entries = <<>> THEN 0
    ELSE Cardinality(Head(entries).grid_fields \cap DOMAIN Head(entries).item)
         + RoutedCount(Tail(entries))

\* the entries the latest call of an instance passed to insert_item
PassedBy(w) ==
    IF last[w].trace = <<>> THEN <<>>
    ELSE IF last[w].op = "close_spider" THEN last[w].before
    ELSE IF Truthy(config.buffer)
    THEN Append(last[w].before, Entry(last[w].item, last[w].grid_fields))
    ELSE <<Entry(last[w].item, last[w].grid_fields)>>

Blank(v) == v = None \/ v = StrV("")

\* C10: a field whose serialized value is None or '' is in no document
\* handed to the store and in no buffered item, and GridFS receives one
\* file per grid field that the item still holds, none for a dropped one.
C10_BlankFieldsDropped ==
    \A w \in live :
        /\ \A j \in WritesBy(w) : \A p \in 1..Len(written[j].docs) :
              /\ \A f \in DOMAIN written[j].docs[p] : ~Blank(written[j].docs[p][f])
              /\ \A f \in DOMAIN ArrivalOf(w, j, p).raw :
                    Blank(SerializeField(fields[f], ArrivalOf(w, j, p).raw[f]))
                    => f \notin DOMAIN written[j].docs[p]
        /\ \A i \in 1..Len(ItemBuffer(w)) :
              \A f \in DOMAIN ItemBuffer(w)[i].item : ~Blank(ItemBuffer(w)[i].item[f])
        /\ last[w].op \in {"process_item", "close_spider"}
           => Len(last[w].puts) = RoutedCount(PassedBy(w))

C10_Witness ==
    /\ fields = BigBodyItem
    /\ last[1].op = "process_item"
    /\ last[1].fault = "ok"
    /\ arrived[1][Len(arrived[1])].raw = [id |-> StrV("b"), body |-> StrV("")]
    /\ last[1].grid_fields = {"body"}
    /\ written[Len(written)].docs = <<[id |-> StrV("b")]>>
    /\ last[1].puts = <<>>

\* the call a step makes raised DuplicateKeyError from collection.insert:
\* the step appends a failed insert of instance w to the write attempts
InsertRaisedDuplicate(w) ==
    /\ Len(written') = Len(written) + 1
    /\ written'[Len(written')].by = w
    /\ written'[Len(written')].op = "insert"
    /\ written'[Len(written')].fault = "dup"

\* C11: the duplicate counter of an instance never decreases and is never
\* reset.  A step adds one to it when the step's insert raised a uniqueness
\* violation while the stop threshold is above zero; every other step (a
\* successful insert, an upsert, an item buffered without a flush, a
\* violation with threshold 0, open_spider, close_spider without a
\* violation) leaves it as it was.
C11_CounterCountsViolationsOnly ==
    [][\A w \in Writer :
          duplicate_key_count'[w] =
              IF InsertRaisedDuplicate(w) /\ stop_on_duplicate[w] > 0
              THEN duplicate_key_count[w] + 1
              ELSE duplicate_key_count[w]]_vars

\* a violation was counted and a later violation was counted on top of it,
\* with a successful insert in between
C11_Witness ==
    /\ duplicate_key_count[1] = 2
    /\ stop_on_duplicate[1] > 0
    /\ \E i, j, k \in WritesBy(1) :
          /\ i < j /\ j < k
          /\ written[i].fault = "dup"
          /\ written[j].fault = "ok"
          /\ written[k].fault = "dup"

\* the logical names instance w has looked up: insert_item looks up the
\* spider's name in every call, and it is called for every item passed
\* without a buffer size and for every write with one
NamesSeen(w) ==
    IF WritesBy(w) # {} \/ (~Truthy(config.buffer) /\ arrived[w] # <<>>)
    THEN {spider_name[w]}
    ELSE {}

\* C12: collection routing of an instance that has set up its registry.
\* Without separate collections every write goes to the configured default
\* collection and the registry holds the default entry only.  With separate
\* collections every write goes to the collection named after the spider's
\* name, and the registry holds the default entry plus one entry per name
\* looked up, each bound to the collection of that name.
C12_RoutedByName ==
    \A w \in live :
        connected[w] =>
            IF ~Truthy(config.separate_collections)
            THEN /\ DOMAIN collections[w] = {"default"}
                 /\ \A j \in WritesBy(w) : written[j].coll = config.collection.s
            ELSE /\ DOMAIN collections[w] = {"default"} \cup NamesSeen(w)
                 /\ \A name \in NamesSeen(w) : collections[w][name] = name
                 /\ \A j \in WritesBy(w) : written[j].coll = spider_name[w]

\* C13: with a unique key configured, every write is preceded, in the same
\* call of insert_item, by an ensure_index call, and the collection the
\* write targets has the unique index on the configured key; with no unique
\* key configured ensure_index is never called and no collection has an
\* index.
C13_IndexEnsuredBeforeWrite ==
    \A w \in live :
        IF Truthy(config.unique_key)
        THEN /\ \A p \in WritesIn(last[w].trace) :
                    p > 1 /\ last[w].trace[p - 1] = "ensure_index"
             /\ \A j \in WritesBy(w) :
                    config.unique_key.keys \in indexes[written[j].coll]
        ELSE /\ \A p \in 1..Len(last[w].trace) :
                    last[w].trace[p] # "ensure_index"
             /\ \A c \in CollectionNames : indexes[c] = {}

\* two upserts were made into the collection of the spider's name, which
\* has the unique index
C13_Witness ==
    /\ config.unique_key = KeyStr("id")
    /\ Truthy(config.separate_collections)
    /\ spider_name[1] = OwnName(1)
    /\ Len(written) = 2
    /\ \A j \in 1..2 : written[j].op = "update" /\ written[j].coll = OwnName(1)
    /\ last[1].trace = <<"ensure_index", "update">>
    /\ indexes[OwnName(1)] = {<<"id">>}

\* C14: an instance set up with a negative stop threshold fails: open_spider
\* raises, SyntaxError once the client was created, and no item is ever
\* processed, so none is processed with a negative threshold.  With a
\* threshold of 0 or none, a legal configuration and a client created,
\* open_spider succeeds and the effective threshold is 0.
C14_NegativeThresholdRejected ==
    \A w \in live :
        /\ (phase[w] # "new" /\ config.stop_on_duplicate.kind = "int"
               /\ config.stop_on_duplicate.n < 0)
           => /\ phase[w] = "failed"
              /\ last[w].op = "open_spider"
              /\ last[w].ret.kind = "raise"
              /\ connected[w] => last[w].ret = Raised("SyntaxError")
              /\ arrived[w] = <<>>
              /\ WritesBy(w) = {}
        /\ arrived[w] # <<>> => stop_on_duplicate[w] >= 0
        /\ (phase[w] # "new" /\ ~Truthy(config.stop_on_duplicate)
               /\ ~IllegalConfig(config) /\ connected[w])
           => /\ phase[w] \in {"open", "closed"}
              /\ stop_on_duplicate[w] = 0

\* open_spider created the client and then rejected the threshold -1
C14_Witness ==
    /\ config.stop_on_duplicate = IntV(-1)
    /\ connected[1]
    /\ phase[1] = "failed"
    /\ last[1].ret = Raised("SyntaxError")

\* the uri the settings of instance w ask for when they name the legacy
\* host: the explicit uri, else the replica set's hosts, else the host with
\* the legacy port or with 27017
LegacyUriAsked(w) ==
    LET st == settings[w]
    IN  IF ~not_set(st.MONGODB_URI) THEN st.MONGODB_URI
        ELSE IF ~not_set(st.MONGODB_REPLICA_SET)
                /\ ~not_set(st.MONGODB_REPLICA_SET_HOSTS)
        THEN StrV("mongodb://" \o Str(st.MONGODB_REPLICA_SET_HOSTS))
        ELSE StrV("mongodb://" \o Str(st.MONGODB_HOST) \o ":"
                      \o (IF not_set(st.MONGODB_PORT) THEN "27017"
                          ELSE Str(st.MONGODB_PORT)))

\* C15: when the settings name the legacy host, configure completes: the
\* uri it leaves in config is the host with the legacy port, or with 27017
\* when no port is set, unless the settings give a uri themselves, and
\* open_spider does not fail in configure.
C15_LegacyHostResolved ==
    \A w \in live :
        (phase[w] # "new" /\ ~not_set(settings[w].MONGODB_HOST))
        => /\ config.uri = LegacyUriAsked(w)
           /\ last[w].op = "open_spider" => last[w].ret # Raised("ValueError")

\* C16: close_spider leaves the buffer empty, so a close_spider call made
\* for a spider already closed writes nothing.
C16_BufferClearedOnClose ==
    \A w \in live :
        /\ phase[w] = "closed" => ItemBuffer(w) = <<>>
        /\ (last[w].op = "close_spider" /\ closes[w] > 1)
           => WritesIn(last[w].trace) = {}

\* C17: with a stop threshold above zero the duplicate counter of an
\* instance is the number of its inserts that raised a uniqueness
\* violation: a batched insert that raised counts once, however many of
\* its documents were the offending ones.
C17_OnePerViolatingInsert ==
    \A w \in live :
        stop_on_duplicate[w] > 0
        => duplicate_key_count[w] = Cardinality(Violations(w))

\* a batch of two documents, both offending, was counted once
C17_Witness ==
    /\ stop_on_duplicate[1] > 0
    /\ duplicate_key_count[1] = 1
    /\ \E j \in Violations(1) :
          /\ Len(written[j].docs) = 2
          /\ written[j].bad = {1, 2}

\* the number of documents in the first n write attempts that instance w
\* made
RECURSIVE DocumentsWritten(_, _)
DocumentsWritten(w, n) ==
    IF n = 0 THEN 0
    ELSE (IF written[n].by = w THEN Len(written[n].docs) ELSE 0)
         + DocumentsWritten(w, n - 1)

\* C18: the buffer of an instance holds the items passed to that instance
\* only: every document of a write an instance makes is an item that was
\* passed to it, and the writes of an instance hold as many documents as
\* items were passed to it at most.
C18_BufferPerInstance ==
    \A w \in live :
        /\ \A j \in WritesBy(w) :
              \A p \in 1..Len(written[j].docs) :
                  \E i \in 1..Len(arrived[w]) :
                      arrived[w][i].item = written[j].docs[p]
        /\ DocumentsWritten(w, Len(written)) <= Len(arrived[w])

\* the position, among the items passed to instance w, of the last item
\* that had arrived when write attempt j was made, and of the first item
\* the attempt holds if it holds the latest arrivals
LastArrival(w, j) ==
    Cardinality({i \in 1..Len(arrived[w]) : arrived[w][i].at <= written[j].at})
FirstArrival(w, j) == LastArrival(w, j) - Len(written[j].docs) + 1

\* the write attempts a process_item call of instance w made
Flushes(w) ==
    {j \in WritesBy(w) :
        \E i \in 1..Len(arrived[w]) : arrived[w][i].at = written[j].at}

\* C19: with a buffer size N, when the insert of the N-th item's flush
\* raises an error that is not a uniqueness violation, the call raises it
\* and leaves the buffer empty and the item count 0; every later write, of
\* process_item or of close_spider, holds only items that arrived after
\* that flush, so the N items are not retried.
C19_FailedFlushDiscarded ==
    \A w \in live :
        /\ (Truthy(config.buffer) /\ last[w].op = "process_item"
               /\ last[w].fault = "err")
           => /\ last[w].ret = Raised("StoreError")
              /\ ItemBuffer(w) = <<>>
              /\ current_item[w] = 0
        /\ \A j \in Flushes(w) :
              written[j].fault = "err"
              => \A k \in WritesBy(w) :
                    k > j => /\ FirstArrival(w, k) > LastArrival(w, j)
                             /\ written[k].docs =
                                   ArrivedItems(w, FirstArrival(w, k),
                                                LastArrival(w, k))

\* a flush of two items failed, a third item arrived, and close_spider
\* wrote the third item only
C19_Witness ==
    /\ config.buffer = IntV(2)
    /\ phase[1] = "closed"
    /\ Len(arrived[1]) = 3
    /\ Len(written) = 2
    /\ written[1].fault = "err"
    /\ Len(written[1].docs) = 2
    /\ written[2].docs = <<arrived[1][3].item>>

\* the documents of the first n write attempts that instance w made, one
\* after the other
RECURSIVE Delivered(_, _)
Delivered(w, n) ==
    IF n = 0 THEN <<>>
    ELSE Delivered(w, n - 1)
             \o (IF written[n].by = w THEN written[n].docs ELSE <<>>)

\* no write attempt of instance w raised
NoStoreErrors(w) == \A j \in WritesBy(w) : written[j].fault = "ok"

\* C20: for one instance whose writes raise no store error, with any
\* buffer size N or none: between calls the buffer holds as many entries as
\* the item count says, fewer than N; and after close_spider the writes,
\* one after the other, hold exactly the items passed to process_item, in
\* arrival order, each once.
C20_EveryItemDeliveredOnce ==
    \A w \in live :
        NoStoreErrors(w)
        => /\ Truthy(config.buffer)
              => /\ Len(ItemBuffer(w)) = current_item[w]
                 /\ current_item[w] < config.buffer.n
           /\ phase[w] = "closed"
              => Delivered(w, Len(written))
                     = ArrivedItems(w, 1, Len(arrived[w]))

====
